---- MODULE Spec2Model ----
(***************************************************************************)
(* A model of libcnab (cnab-rs): the CNAB bundle descriptor of             *)
(* src/src/cnab.rs, its serde-derived serialisation and deserialisation,   *)
(* and the three entry points Bundle::from_str, Bundle::from_json and      *)
(* Bundle::from_file.                                                      *)
(*                                                                         *)
(* JSON text is a sequence of lexical tokens; a JSON document is a tree of *)
(* tagged records in which an object is a SEQUENCE of <<key, value>>       *)
(* members, so that member order and repeated keys are representable.      *)
(* Rust values are records named after the structs' fields; Option<T> is   *)
(* None / Some(x); BTreeMap<String, T> is a function from a finite set of  *)
(* keys; Vec<T> is a sequence; PathBuf is a tagged OS string that may or   *)
(* may not be valid UTF-8.                                                 *)
(***************************************************************************)
EXTENDS Integers, Sequences, FiniteSets, TLC

(***************************************************************************)
(* JSON trees (serde_json's data model as read from and written to text).  *)
(***************************************************************************)
JNull == [t |-> "null"]
JBool(b) == [t |-> "bool", b |-> b]
JNum(n) == [t |-> "num", n |-> n]
JStr(s) == [t |-> "str", s |-> s]
\* An integer literal beyond the integers of the checker: its decimal digits.
JBig(ds) == [t |-> "big", d |-> ds]
JArr(xs) == [t |-> "arr", a |-> xs]
JObj(ms) == [t |-> "obj", o |-> ms]

(***************************************************************************)
(* Lexical tokens of a JSON text.  Bad(w) is a run of characters that is   *)
(* no JSON token, such as the bare word hello.                             *)
(***************************************************************************)
P(c) == [k |-> "punct", p |-> c]
Lit(w) == [k |-> "lit", w |-> w]
NumTok(n) == [k |-> "num", n |-> n]
StrTok(s) == [k |-> "str", s |-> s]
Bad(w) == [k |-> "bad", x |-> w]

IsP(tok, c) == tok.k = "punct" /\ tok.p = c

(***************************************************************************)
(* Result<T, E>.                                                           *)
(***************************************************************************)
Ok(x) == [ok |-> TRUE, val |-> x]
Err(e) == [ok |-> FALSE, err |-> e]

(***************************************************************************)
(* Option<T>.                                                              *)
(***************************************************************************)
None == [some |-> FALSE]
Some(x) == [some |-> TRUE, x |-> x]

(***************************************************************************)
(* serde_json's compact writer: a JSON tree to its text.                   *)
(***************************************************************************)
RECURSIVE WriteJson(_)
RECURSIVE WriteElems(_, _)
RECURSIVE WriteMembers(_, _)
WriteElems(xs, i) ==
    IF i > Len(xs) THEN <<>>
    ELSE (IF i > 1 THEN <<P(",")>> ELSE <<>>) \o WriteJson(xs[i]) \o WriteElems(xs, i + 1)

WriteMembers(ms, i) ==
    IF i > Len(ms) THEN <<>>
    ELSE (IF i > 1 THEN <<P(",")>> ELSE <<>>)
         \o <<StrTok(ms[i][1]), P(":")>> \o WriteJson(ms[i][2])
         \o WriteMembers(ms, i + 1)

WriteJson(v) ==
    CASE v.t = "null" -> <<Lit("null")>>
      [] v.t = "bool" -> <<Lit(IF v.b THEN "true" ELSE "false")>>
      [] v.t = "num"  -> <<NumTok(v.n)>>
      [] v.t = "big"  -> <<[k |-> "big", d |-> v.d]>>
      [] v.t = "str"  -> <<StrTok(v.s)>>
      [] v.t = "arr"  -> <<P("[")>> \o WriteElems(v.a, 1) \o <<P("]")>>
      [] v.t = "obj"  -> <<P("{")>> \o WriteMembers(v.o, 1) \o <<P("}")>>

(***************************************************************************)
(* serde_json's reader: recursive descent over the text.  A step returns   *)
(* the tree read and the position after it, or the error raised.           *)
(***************************************************************************)
\* serde_json::Error: its category (Error::classify), its code, what the message
\* names (a field, the expected type, a custom message), and where it was raised:
\* the keys from the document's root to the value being read, which stands for
\* the line and column the error carries.
JsonError(category, code, what) ==
    [kind |-> "serde_json", category |-> category, code |-> code, what |-> what,
     pos |-> <<>>]
SyntaxErr(code) == JsonError("Syntax", code, "")
EofErr(code) == JsonError("Eof", code, "")
DataErr(code, what) == JsonError("Data", code, what)
At(v, i) == [ok |-> TRUE, val |-> v, i |-> i]

RECURSIVE ParseValue(_, _)
RECURSIVE ParseElems(_, _, _)
RECURSIVE ParseMembers(_, _, _)
ParseElems(toks, i, acc) ==
    \* i is just past "[" or past a ","
    LET r == ParseValue(toks, i) IN
    IF i > Len(toks) THEN Err(EofErr("EofWhileParsingList"))
    ELSE IF IsP(toks[i], "]") THEN Err(SyntaxErr("TrailingComma"))
    ELSE IF ~r.ok THEN r
    ELSE IF r.i > Len(toks) THEN Err(EofErr("EofWhileParsingList"))
    ELSE IF IsP(toks[r.i], "]") THEN At(JArr(Append(acc, r.val)), r.i + 1)
    ELSE IF IsP(toks[r.i], ",") THEN ParseElems(toks, r.i + 1, Append(acc, r.val))
    ELSE Err(SyntaxErr("ExpectedListCommaOrEnd"))

ParseMembers(toks, i, acc) ==
    \* i is just past "{" or past a ","
    LET r == ParseValue(toks, i + 2) IN
    IF i > Len(toks) THEN Err(EofErr("EofWhileParsingObject"))
    ELSE IF IsP(toks[i], "}") THEN Err(SyntaxErr("TrailingComma"))
    ELSE IF toks[i].k # "str" THEN Err(SyntaxErr("KeyMustBeAString"))
    ELSE IF i + 1 > Len(toks) THEN Err(EofErr("EofWhileParsingObject"))
    ELSE IF ~IsP(toks[i + 1], ":") THEN Err(SyntaxErr("ExpectedColon"))
    ELSE IF ~r.ok THEN r
    ELSE IF r.i > Len(toks) THEN Err(EofErr("EofWhileParsingObject"))
    ELSE IF IsP(toks[r.i], "}")
         THEN At(JObj(Append(acc, <<toks[i].s, r.val>>)), r.i + 1)
    ELSE IF IsP(toks[r.i], ",")
         THEN ParseMembers(toks, r.i + 1, Append(acc, <<toks[i].s, r.val>>))
    ELSE Err(SyntaxErr("ExpectedObjectCommaOrEnd"))

ParseValue(toks, i) ==
    IF i > Len(toks) THEN Err(EofErr("EofWhileParsingValue"))
    ELSE LET tok == toks[i] IN
         CASE tok.k = "lit" ->
                At(IF tok.w = "null" THEN JNull ELSE JBool(tok.w = "true"), i + 1)
           [] tok.k = "num" -> At(JNum(tok.n), i + 1)
           [] tok.k = "big" -> At(JBig(tok.d), i + 1)
           [] tok.k = "str" -> At(JStr(tok.s), i + 1)
           [] tok.k = "bad" -> Err(SyntaxErr("ExpectedSomeValue"))
           [] tok.k = "punct" ->
                IF tok.p = "[" THEN
                    IF i + 1 <= Len(toks) /\ IsP(toks[i + 1], "]")
                    THEN At(JArr(<<>>), i + 2)
                    ELSE ParseElems(toks, i + 1, <<>>)
                ELSE IF tok.p = "{" THEN
                    IF i + 1 <= Len(toks) /\ IsP(toks[i + 1], "}")
                    THEN At(JObj(<<>>), i + 2)
                    ELSE ParseMembers(toks, i + 1, <<>>)
                ELSE Err(SyntaxErr("ExpectedSomeValue"))

\* ParseJson without Deserializer::end(): what follows the value is not looked at.
ParseJsonNoEnd(toks) ==
    LET r == ParseValue(toks, 1) IN IF r.ok THEN Ok(r.val) ELSE r

\* A whole text: one value, then Deserializer::end() refuses anything left.
ParseJson(toks) ==
    LET r == ParseValue(toks, 1) IN
    IF ~r.ok THEN r
    ELSE IF r.i <= Len(toks) THEN Err(SyntaxErr("TrailingCharacters"))
    ELSE Ok(r.val)

(***************************************************************************)
(* Helpers over sequences of results.                                      *)
(***************************************************************************)
Range(f) == {f[i] : i \in DOMAIN f}
Min(S) == CHOOSE x \in S : \A y \in S : x <= y

\* The first error of a sequence of results, in order (serde stops at it).
FirstErr(rs) == rs[Min({i \in DOMAIN rs : ~rs[i].ok})]
AllOk(rs) == \A i \in DOMAIN rs : rs[i].ok

(***************************************************************************)
(* Ord for String, as BTreeMap uses it: the map keys the model draws on,   *)
(* in ascending byte order.                                                *)
(***************************************************************************)
KeyOrder == <<"a", "b", "c", "com.example.praxis", "k1", "k2", "one", "techne", "two">>
\* SortedKeys in descending order.
DescendingKeys(S) ==
    SelectSeq([i \in DOMAIN KeyOrder |-> KeyOrder[Len(KeyOrder) + 1 - i]], LAMBDA k : k \in S)
SortedKeys(S) == SelectSeq(KeyOrder, LAMBDA k : k \in S)

(***************************************************************************)
(* std::path::PathBuf: an OS string.  On Unix it holds arbitrary bytes;    *)
(* utf8 tells whether Path::to_str() is Some.                              *)
(***************************************************************************)
PathBuf(s) == [utf8 |-> TRUE, s |-> s]
RawPath(s) == [utf8 |-> FALSE, s |-> s]

(***************************************************************************)
(* semver::Version and its text form.  A string's characters are given by  *)
(* the table Chars (strings are atoms here); FromChars is its inverse.     *)
(***************************************************************************)
VersionTexts ==
    <<"1.0.0", "0.1.2", "2.10.1", "1.0.0-a", "1.0.0+b", "1.0.0-a+b", "1.0.0-a.1",
      "abc", "1.0", "1", "", "1.0.0.0", "1.a.0", "1.0.0-", "1.0.0+", "1..0", "v1.0.0">>

Chars(s) ==
    CASE s = "1.0.0"     -> <<"1", ".", "0", ".", "0">>
      [] s = "0.1.2"     -> <<"0", ".", "1", ".", "2">>
      [] s = "2.10.1"    -> <<"2", ".", "1", "0", ".", "1">>
      [] s = "1.0.0-a"   -> <<"1", ".", "0", ".", "0", "-", "a">>
      [] s = "1.0.0+b"   -> <<"1", ".", "0", ".", "0", "+", "b">>
      [] s = "1.0.0-a+b" -> <<"1", ".", "0", ".", "0", "-", "a", "+", "b">>
      [] s = "1.0.0-a.1" -> <<"1", ".", "0", ".", "0", "-", "a", ".", "1">>
      [] s = "abc"       -> <<"a", "b", "c">>
      [] s = "1.0"       -> <<"1", ".", "0">>
      [] s = "1"         -> <<"1">>
      [] s = ""          -> <<>>
      [] s = "1.0.0.0"   -> <<"1", ".", "0", ".", "0", ".", "0">>
      [] s = "1.a.0"     -> <<"1", ".", "a", ".", "0">>
      [] s = "1.0.0-"    -> <<"1", ".", "0", ".", "0", "-">>
      [] s = "1.0.0+"    -> <<"1", ".", "0", ".", "0", "+">>
      [] s = "1..0"      -> <<"1", ".", ".", "0">>
      [] s = "v1.0.0"    -> <<"v", "1", ".", "0", ".", "0">>

FromChars(cs) == CHOOSE s \in Range(VersionTexts) : Chars(s) = cs

Digits == <<"0", "1", "2", "3", "4", "5", "6", "7", "8", "9">>
DigitVal(c) == (CHOOSE i \in DOMAIN Digits : Digits[i] = c) - 1

\* The position of the first c in cs, or 0.
IndexOf(cs, c) ==
    IF \E i \in DOMAIN cs : cs[i] = c
    THEN Min({i \in DOMAIN cs : cs[i] = c})
    ELSE 0

\* cs split at every c.
RECURSIVE SplitOn(_, _)
SplitOn(cs, c) ==
    LET i == IndexOf(cs, c) IN
    IF i = 0 THEN <<cs>>
    ELSE <<SubSeq(cs, 1, i - 1)>> \o SplitOn(SubSeq(cs, i + 1, Len(cs)), c)

RECURSIVE NumVal(_)
NumVal(ds) ==
    IF ds = <<>> THEN 0
    ELSE 10 * NumVal(SubSeq(ds, 1, Len(ds) - 1)) + DigitVal(ds[Len(ds)])

RECURSIVE NumChars(_)
NumChars(n) ==
    IF n < 10 THEN <<Digits[n + 1]>>
    ELSE NumChars(n \div 10) \o <<Digits[(n % 10) + 1]>>

\* A numeric component: digits, no leading zero.
IsNumeric(ds) ==
    /\ ds # <<>>
    /\ \A i \in DOMAIN ds : ds[i] \in Range(Digits)
    /\ (Len(ds) > 1 => ds[1] # "0")

\* Dot-separated, non-empty identifiers of [0-9A-Za-z-].
IsIdentList(cs) ==
    \A part \in Range(SplitOn(cs, ".")) :
        /\ part # <<>>
        /\ \A i \in DOMAIN part : part[i] \in Range(Digits) \cup {"a", "b", "c", "v", "-"}

\* Version::parse: MAJOR.MINOR.PATCH[-PRERELEASE][+BUILD].
ParseVersion(cs) ==
    LET plus == IndexOf(cs, "+")
        noBuild == IF plus = 0 THEN cs ELSE SubSeq(cs, 1, plus - 1)
        build == IF plus = 0 THEN <<>> ELSE SubSeq(cs, plus + 1, Len(cs))
        dash == IndexOf(noBuild, "-")
        core == IF dash = 0 THEN noBuild ELSE SubSeq(noBuild, 1, dash - 1)
        pre == IF dash = 0 THEN <<>> ELSE SubSeq(noBuild, dash + 1, Len(noBuild))
        nums == SplitOn(core, ".")
    IN  IF /\ Len(nums) = 3
           /\ \A i \in 1..3 : IsNumeric(nums[i])
           /\ (dash # 0 => IsIdentList(pre))
           /\ (plus # 0 => IsIdentList(build))
        THEN Ok([major |-> NumVal(nums[1]), minor |-> NumVal(nums[2]),
                 patch |-> NumVal(nums[3]), pre |-> pre, build |-> build])
        ELSE Err("semver")

\* Display for Version.
VersionChars(v) ==
    NumChars(v.major) \o <<".">> \o NumChars(v.minor) \o <<".">> \o NumChars(v.patch)
    \o (IF v.pre = <<>> THEN <<>> ELSE <<"-">> \o v.pre)
    \o (IF v.build = <<>> THEN <<>> ELSE <<"+">> \o v.build)

(***************************************************************************)
(* The types of src/src/cnab.rs, as data: a type is a primitive, an        *)
(* Option, a Vec, a BTreeMap<String, _> or a struct with its fields in     *)
(* declaration order.  A value of a struct is a record over the field      *)
(* names.                                                                  *)
(***************************************************************************)
Prim(name) == [ty |-> name]
Option(t) == [ty |-> "Option", of |-> t]
Vec(t) == [ty |-> "Vec", of |-> t]
BTreeMap(t) == [ty |-> "BTreeMap", of |-> t]
Field(name, type) == [name |-> name, type |-> type, default |-> FALSE]
\* A field under #[serde(default)].
DefaultField(name, type) == [name |-> name, type |-> type, default |-> TRUE]
\* A struct deriving Serialize and Deserialize; rename is its rename_all.
Struct(name, rename, fields) ==
    [ty |-> "struct", name |-> name, rename |-> rename, fields |-> fields]

Maintainer ==
    Struct("Maintainer", "none",
           <<Field("email", Option(Prim("String"))),
             Field("name", Prim("String")),
             Field("url", Option(Prim("String")))>>)

Platform ==
    Struct("Platform", "none",
           <<Field("arch", Option(Prim("String"))),
             Field("os", Option(Prim("String")))>>)

Image ==
    Struct("Image", "camelCase",
           <<Field("description", Option(Prim("String"))),
             Field("content_digest", Option(Prim("String"))),
             Field("image", Prim("String")),
             Field("image_type", Option(Prim("String"))),
             Field("media_type", Option(Prim("String"))),
             Field("platform", Option(Platform)),
             Field("size", Option(Prim("i64"))),
             Field("labels", Option(BTreeMap(Prim("String"))))>>)

InvocationImage ==
    Struct("InvocationImage", "camelCase",
           <<Field("content_digest", Option(Prim("String"))),
             Field("image", Prim("String")),
             Field("image_type", Option(Prim("String"))),
             Field("media_type", Option(Prim("String"))),
             Field("size", Option(Prim("i64"))),
             Field("labels", Option(BTreeMap(Prim("String"))))>>)

Credential ==
    Struct("Credential", "none",
           <<Field("description", Option(Prim("String"))),
             Field("env", Option(Prim("String"))),
             Field("path", Option(Prim("PathBuf"))),
             Field("required", Option(Prim("bool")))>>)

Destination ==
    Struct("Destination", "none",
           <<Field("env", Option(Prim("String"))),
             Field("path", Option(Prim("PathBuf")))>>)

Parameter ==
    Struct("Parameter", "camelCase",
           <<Field("apply_to", Option(Vec(Prim("String")))),
             Field("definition", Option(Prim("String"))),
             Field("description", Option(Prim("String"))),
             Field("destination", Destination),
             Field("required", Option(Prim("bool")))>>)

Action ==
    Struct("Action", "none",
           <<Field("description", Option(Prim("String"))),
             DefaultField("modifies", Prim("bool")),
             DefaultField("stateless", Prim("bool"))>>)

Output ==
    Struct("Output", "camelCase",
           <<Field("apply_to", Option(Vec(Prim("String")))),
             Field("definition", Prim("String")),
             Field("description", Option(Prim("String"))),
             Field("path", Option(Prim("PathBuf")))>>)

Bundle ==
    Struct("Bundle", "camelCase",
           <<Field("actions", Option(BTreeMap(Action))),
             Field("credentials", Option(BTreeMap(Credential))),
             Field("custom", Option(BTreeMap(Prim("Value")))),
             Field("definitions", Option(BTreeMap(Prim("Value")))),
             Field("description", Option(Prim("String"))),
             Field("images", Option(BTreeMap(Image))),
             Field("invocation_images", Vec(InvocationImage)),
             Field("keywords", Option(Vec(Prim("String")))),
             Field("license", Option(Prim("String"))),
             Field("maintainers", Option(Vec(Maintainer))),
             Field("name", Prim("String")),
             Field("outputs", Option(BTreeMap(Output))),
             Field("parameters", Option(BTreeMap(Parameter))),
             Field("schema_version", Prim("String")),
             Field("version", Prim("Version"))>>)

(***************************************************************************)
(* The types of src/src/claim.rs.  An enum of unit variants is given by    *)
(* its variants' names; a value of it is the name of a variant.            *)
(***************************************************************************)
Enum(name, rename, variants) ==
    [ty |-> "enum", name |-> name, rename |-> rename, variants |-> variants]

Status == Enum("Status", "camelCase", <<"Success", "Failure", "Pending">>)

Response ==
    Struct("Response", "camelCase",
           <<Field("action", Prim("String")),
             Field("message", Option(Prim("String"))),
             Field("status", Status)>>)

Claim ==
    Struct("Claim", "camelCase",
           <<Field("bundle", Bundle),
             Field("created", Prim("DateTime")),
             Field("custom", Option(Prim("Value"))),
             Field("modified", Prim("DateTime")),
             Field("name", Prim("String")),
             Field("outputs", Option(BTreeMap(Prim("String")))),
             Field("parameters", Option(BTreeMap(Prim("String")))),
             Field("result", Response),
             Field("revision", Prim("String")),
             Field("bundle_reference", Option(Prim("String")))>>)

Structs ==
    {Maintainer, Platform, Image, InvocationImage, Credential, Destination, Parameter,
     Action, Output, Bundle}

\* rename_all = "camelCase" on the field names and the variant names of the
\* source.
CamelCase(name) ==
    CASE name = "content_digest"    -> "contentDigest"
      [] name = "image_type"        -> "imageType"
      [] name = "media_type"        -> "mediaType"
      [] name = "apply_to"          -> "applyTo"
      [] name = "invocation_images" -> "invocationImages"
      [] name = "schema_version"    -> "schemaVersion"
      [] name = "bundle_reference"  -> "bundleReference"
      [] name = "Success"           -> "success"
      [] name = "Failure"           -> "failure"
      [] name = "Pending"           -> "pending"
      [] OTHER                      -> name

\* The key of field f of struct t on the wire, and the keys of all its fields.
WireKey(t, f) == IF t.rename = "camelCase" THEN CamelCase(f.name) ELSE f.name
WireKeys(t) == [n \in DOMAIN t.fields |-> WireKey(t, t.fields[n])]

\* Default::default() of a field's type.
DefaultOfTrue(t) ==
    TRUE
DefaultOf(t) ==
    CASE t.ty = "bool" -> FALSE

(***************************************************************************)
(* Serialize, as serde implements or derives it.  A serializer returns     *)
(* Ok(tree) or the first error raised.                                     *)
(***************************************************************************)
\* impl Serialize for Path: the string form, or an error when there is none.
SerPath(p) ==
    IF p.utf8 THEN Ok(JStr(p.s))
    ELSE Err(DataErr("custom", "path contains invalid UTF-8 characters"))

\* impl Serialize for Version: its Display form as a string.
SerVersion(v) == Ok(JStr(FromChars(VersionChars(v))))

\* chrono's DateTime<Utc>, held as its RFC 3339 text in UTC, which is what
\* Serialize writes; FromStr takes an RFC 3339 text of any offset and converts
\* it to UTC.
ParseDateTime(s) ==
    CASE s = "2018-08-30T20:39:55.549002887-06:00" ->
           Ok([utc |-> "2018-08-31T02:39:55.549002887Z"])
      [] s = "2018-08-31T02:39:55.549002887Z" ->
           Ok([utc |-> "2018-08-31T02:39:55.549002887Z"])
      [] s = "1970-01-01T01:00:00+01:00" -> Ok([utc |-> "1970-01-01T00:00:00Z"])
      [] s = "1970-01-01T00:00:00Z" -> Ok([utc |-> "1970-01-01T00:00:00Z"])
      [] OTHER -> Err("chrono")

\* serialize_seq: the elements in order, or the first error.
EmitSeq(rs) ==
    IF AllOk(rs) THEN Ok(JArr([i \in DOMAIN rs |-> rs[i].val])) ELSE FirstErr(rs)

\* serialize_map / serialize_struct: the entries in order, or the first error.
EmitMap(keys, rs) ==
    IF AllOk(rs) THEN Ok(JObj([i \in DOMAIN keys |-> <<keys[i], rs[i].val>>]))
    ELSE FirstErr(rs)

\* serde_json::Value: a tree whose objects are maps (t = "map"), written in
\* ascending key order.
VObj(m) == [t |-> "map", m |-> m]
RECURSIVE SerValue(_)
SerValue(v) ==
    IF v.t = "arr" THEN EmitSeq([i \in DOMAIN v.a |-> SerValue(v.a[i])])
    ELSE IF v.t = "map"
         THEN EmitMap(SortedKeys(DOMAIN v.m),
                      [i \in 1..Cardinality(DOMAIN v.m) |->
                          SerValue(v.m[SortedKeys(DOMAIN v.m)[i]])])
    ELSE Ok(v)

\* Serialize for a value v of type t.  Option: None is written as null (the
\* source has no skip_serializing_if); Vec: the elements in order; BTreeMap: the
\* entries in ascending key order; a derived struct: every field, in
\* declaration order, under its wire key; a unit variant: its wire name.
RECURSIVE Ser(_, _)
Ser(t, v) ==
    CASE t.ty = "String"   -> Ok(JStr(v))
      [] t.ty = "bool"     -> Ok(JBool(v))
      [] t.ty = "i64"      -> Ok(JNum(v))
      [] t.ty = "PathBuf"  -> SerPath(v)
      [] t.ty = "Version"  -> SerVersion(v)
      [] t.ty = "Value"    -> SerValue(v)
      [] t.ty = "DateTime" -> Ok(JStr(v.utc))
      [] t.ty = "enum"     -> Ok(JStr(IF t.rename = "camelCase" THEN CamelCase(v) ELSE v))
      [] t.ty = "Option"   -> IF v.some THEN Ser(t.of, v.x) ELSE Ok(JNull)
      [] t.ty = "Vec"      -> EmitSeq([i \in DOMAIN v |-> Ser(t.of, v[i])])
      [] t.ty = "BTreeMap" ->
           EmitMap(SortedKeys(DOMAIN v),
                   [i \in 1..Cardinality(DOMAIN v) |->
                       Ser(t.of, v[SortedKeys(DOMAIN v)[i]])])
      [] t.ty = "struct"   ->
           EmitMap(WireKeys(t),
                   [n \in DOMAIN t.fields |-> Ser(t.fields[n].type, v[t.fields[n].name])])

\* serde_json::to_string(&bundle).
Written(r) == IF r.ok THEN Ok(WriteJson(r.val)) ELSE r
to_string(b) == Written(Ser(Bundle, b))

(***************************************************************************)
(* Deserialize, as serde implements or derives it, reading a JSON tree.    *)
(* A deserializer returns Ok(value) or the first error in document order.  *)
(***************************************************************************)
Max(S) == CHOOSE x \in S : \A y \in S : x >= y

\* The error of r, raised while reading the value under key k.
Under(k, r) == IF r.ok THEN r ELSE Err([r.err EXCEPT !.pos = <<k>> \o @])

InvalidType(expected) == Err(DataErr("invalid type", expected))

DeString(j) == IF j.t = "str" THEN Ok(j.s) ELSE InvalidType("a string")
DeBool(j) == IF j.t = "bool" THEN Ok(j.b) ELSE InvalidType("a boolean")

\* i64::MAX = 2^63 - 1, and whether the non-negative integer of digits ds (no
\* leading zero) is at most that.
I64Max ==
    <<"9", "2", "2", "3", "3", "7", "2", "0", "3", "6", "8", "5", "4", "7", "7", "5",
      "8", "0", "7">>
FitsI64(ds) ==
    \/ Len(ds) < Len(I64Max)
    \/ /\ Len(ds) = Len(I64Max)
       /\ \/ ds = I64Max
          \/ \E i \in DOMAIN ds :
                /\ DigitVal(ds[i]) < DigitVal(I64Max[i])
                /\ \A h \in 1..(i - 1) : ds[h] = I64Max[h]

\* impl Deserialize for i64: any integer of the range, negative ones included;
\* serde_json hands a larger one to visit_u64, which refuses it.
DeI64(j) ==
    IF j.t = "num" THEN Ok(j.n)
    ELSE IF j.t = "big"
    THEN IF FitsI64(j.d) THEN Ok(NumVal(j.d)) ELSE Err(DataErr("invalid value", "i64"))
    ELSE InvalidType("i64")

\* impl Deserialize for PathBuf: from a string.
DePath(j) == IF j.t = "str" THEN Ok(PathBuf(j.s)) ELSE InvalidType("path string")

\* impl Deserialize for Version: a string handed to Version::parse, whose error
\* becomes a custom error of the deserializer.
CustomErr(r) == IF r.ok THEN r ELSE Err(DataErr("custom", r.err))
\* DeVersion that takes any string, reading as 0.0.0 one that is no version.
DeVersionUnchecked(j) ==
    IF j.t # "str" THEN InvalidType("semver version")
    ELSE IF ParseVersion(Chars(j.s)).ok THEN ParseVersion(Chars(j.s))
    ELSE Ok([major |-> 0, minor |-> 0, patch |-> 0, pre |-> <<>>, build |-> <<>>])

DeVersion(j) ==
    IF j.t # "str" THEN InvalidType("semver version")
    ELSE CustomErr(ParseVersion(Chars(j.s)))

\* Some of the value read.
OkSome(r) == IF r.ok THEN Ok(Some(r.val)) ELSE r

\* Collect pushing each element at the front.
CollectReversed(rs) ==
    IF AllOk(rs) THEN Ok([i \in DOMAIN rs |-> rs[Len(rs) + 1 - i].val]) ELSE FirstErr(rs)

\* The values of the results rs, or their first error.
Collect(rs) ==
    IF AllOk(rs) THEN Ok([i \in DOMAIN rs |-> rs[i].val]) ELSE FirstErr(rs)

\* InsertAll keeping the value a key has already (as entry().or_insert does).
InsertFirst(ms, rs) ==
    IF AllOk(rs)
    THEN Ok([k \in {ms[i][1] : i \in DOMAIN ms} |->
                rs[Min({i \in DOMAIN ms : ms[i][1] = k})].val])
    ELSE FirstErr(rs)

\* BTreeMap::insert of the members ms read as rs, in document order: a repeated
\* key's later value replaces the earlier one.
InsertAll(ms, rs) ==
    IF AllOk(rs)
    THEN Ok([k \in {ms[i][1] : i \in DOMAIN ms} |->
                rs[Max({i \in DOMAIN ms : ms[i][1] = k})].val])
    ELSE FirstErr(rs)

\* serde_json::Value: any tree; an object becomes a Map (key-ordered).
OkArr(r) == IF r.ok THEN Ok(JArr(r.val)) ELSE r
OkObj(r) == IF r.ok THEN Ok(VObj(r.val)) ELSE r
RECURSIVE DeValue(_)
\* DeValue reading every number as 0.
DeValueLossy(j) ==
    IF j.t = "arr"
    THEN OkArr(Collect([i \in DOMAIN j.a |-> Under("[]", DeValue(j.a[i]))]))
    ELSE IF j.t = "obj"
    THEN OkObj(InsertAll(j.o, [i \in DOMAIN j.o |-> Under(j.o[i][1], DeValue(j.o[i][2]))]))
    ELSE IF j.t = "num" THEN Ok(JNum(0))
    ELSE Ok(j)

DeValue(j) ==
    IF j.t = "arr"
    THEN OkArr(Collect([i \in DOMAIN j.a |-> Under("[]", DeValue(j.a[i]))]))
    ELSE IF j.t = "obj"
    THEN OkObj(InsertAll(j.o, [i \in DOMAIN j.o |-> Under(j.o[i][1], DeValue(j.o[i][2]))]))
    ELSE Ok(j)

\* serde_json's deserialize_enum for an enum t of unit variants: a string names
\* the variant; an object is read as one member whose key names the variant
\* and whose value, for a unit variant, is null, and then the object has to end.
DeEnum(t, j) ==
    LET wire(v) == IF t.rename = "camelCase" THEN CamelCase(v) ELSE v
        key == IF j.t = "str" THEN j.s ELSE j.o[1][1]
    IN  IF j.t \notin {"str", "obj"} THEN Err(SyntaxErr("ExpectedSomeValue"))
        ELSE IF j.t = "obj" /\ j.o = <<>> THEN Err(SyntaxErr("ExpectedSomeValue"))
        ELSE IF \A n \in DOMAIN t.variants : wire(t.variants[n]) # key
        THEN Err(DataErr("unknown variant", key))
        ELSE IF j.t = "obj" /\ j.o[1][2].t # "null" THEN InvalidType("unit variant")
        ELSE IF j.t = "obj" /\ Len(j.o) > 1 THEN Err(SyntaxErr("ExpectedSomeValue"))
        ELSE Ok(CHOOSE v \in Range(t.variants) : wire(v) = key)

(***************************************************************************)
(* A derived struct t, read from an object (visit_map) or from an array    *)
(* (visit_seq).                                                            *)
(***************************************************************************)
HasField(t, key) == \E n \in DOMAIN t.fields : WireKey(t, t.fields[n]) = key
FieldOf(t, key) == t.fields[CHOOSE n \in DOMAIN t.fields : WireKey(t, t.fields[n]) = key]

\* The struct whose n-th field is the value of fs[n], or the first error.
Build(t, fs) ==
    IF AllOk(fs)
    THEN Ok([f \in {t.fields[n].name : n \in DOMAIN t.fields} |->
                fs[CHOOSE n \in DOMAIN t.fields : t.fields[n].name = f].val])
    ELSE FirstErr(fs)

\* Missing with an Option field treated like any other.
MissingStrict(t, f) ==
    IF f.default THEN Ok(DefaultOf(f.type))
    ELSE Err(DataErr("missing field", WireKey(t, f)))

\* Missing with "oci" filled in for an image type not seen.
MissingAsOci(t, f) ==
    IF f.name = "image_type" THEN Ok(Some("oci"))
    ELSE IF f.type.ty = "Option" THEN Ok(None)
    ELSE IF f.default THEN Ok(DefaultOf(f.type))
    ELSE Err(DataErr("missing field", WireKey(t, f)))

\* A field not seen in the object: None if it is an Option, its default under
\* #[serde(default)], and otherwise the error "missing field".
Missing(t, f) ==
    IF f.type.ty = "Option" THEN Ok(None)
    ELSE IF f.default THEN Ok(DefaultOf(f.type))
    ELSE Err(DataErr("missing field", WireKey(t, f)))

\* visit_map under #[serde(deny_unknown_fields)].
visit_map_deny(t, ms, rs) ==
    LET seen == [i \in DOMAIN ms |->
                   IF ~HasField(t, ms[i][1]) THEN Err(DataErr("unknown field", ms[i][1]))
                   ELSE IF \E h \in 1..(i - 1) : ms[h][1] = ms[i][1]
                        THEN Err(DataErr("duplicate field", ms[i][1]))
                   ELSE rs[i]]
    IN  IF ~AllOk(seen) THEN FirstErr(seen)
        ELSE Build(t, [n \in DOMAIN t.fields |->
                         IF \E i \in DOMAIN ms : ms[i][1] = WireKey(t, t.fields[n])
                         THEN seen[CHOOSE i \in DOMAIN ms :
                                      ms[i][1] = WireKey(t, t.fields[n])]
                         ELSE Missing(t, t.fields[n])])

\* visit_map: the members ms in document order, rs[i] being the reading of
\* member i as its field.  A key the struct does not name is skipped (no
\* deny_unknown_fields), a repeated field is an error, and after the last
\* member the fields not seen are filled in or reported missing.
visit_map(t, ms, rs) ==
    LET seen == [i \in DOMAIN ms |->
                   IF ~HasField(t, ms[i][1]) THEN Ok(JNull)
                   ELSE IF \E h \in 1..(i - 1) : ms[h][1] = ms[i][1]
                        THEN Err(DataErr("duplicate field", ms[i][1]))
                   ELSE rs[i]]
    IN  IF ~AllOk(seen) THEN FirstErr(seen)
        ELSE Build(t, [n \in DOMAIN t.fields |->
                         IF \E i \in DOMAIN ms : ms[i][1] = WireKey(t, t.fields[n])
                         THEN seen[CHOOSE i \in DOMAIN ms :
                                      ms[i][1] = WireKey(t, t.fields[n])]
                         ELSE Missing(t, t.fields[n])])

\* visit_seq: the fields by position, rs[n] being the reading of element n.  A
\* position not filled is an error unless the field has #[serde(default)];
\* serde_json refuses elements left over.
visit_seq(t, xs, rs) ==
    IF ~AllOk(rs) THEN FirstErr(rs)
    ELSE IF Len(xs) > Len(t.fields) THEN Err(SyntaxErr("TrailingCharacters"))
    ELSE Build(t, [n \in DOMAIN t.fields |->
                     IF n <= Len(xs) THEN rs[n]
                     ELSE IF t.fields[n].default THEN Ok(DefaultOf(t.fields[n].type))
                     ELSE Err(DataErr("invalid length", WireKey(t, t.fields[n])))])

\* Deserialize for type t, reading the tree j.  Option: null is None, anything
\* else is Some of the inner reading; Vec: an array, element by element;
\* BTreeMap: an object, member by member; a derived struct: serde_json's
\* deserialize_struct takes an object or an array.
RECURSIVE De(_, _)
De(t, j) ==
    CASE t.ty = "String"   -> DeString(j)
      [] t.ty = "bool"     -> DeBool(j)
      [] t.ty = "i64"      -> DeI64(j)
      [] t.ty = "PathBuf"  -> DePath(j)
      [] t.ty = "Version"  -> DeVersion(j)
      [] t.ty = "Value"    -> DeValue(j)
      [] t.ty = "DateTime" ->
           IF j.t # "str" THEN InvalidType("a formatted date and time string")
           ELSE CustomErr(ParseDateTime(j.s))
      [] t.ty = "enum"     -> DeEnum(t, j)
      [] t.ty = "Option"   -> IF j.t = "null" THEN Ok(None) ELSE OkSome(De(t.of, j))
      [] t.ty = "Vec"      ->
           IF j.t # "arr" THEN InvalidType("a sequence")
           ELSE Collect([i \in DOMAIN j.a |-> Under("[]", De(t.of, j.a[i]))])
      [] t.ty = "BTreeMap" ->
           IF j.t # "obj" THEN InvalidType("a map")
           ELSE InsertAll(j.o, [i \in DOMAIN j.o |-> Under(j.o[i][1], De(t.of, j.o[i][2]))])
      [] t.ty = "struct"   ->
           IF j.t = "obj"
           THEN visit_map(t, j.o,
                          [i \in DOMAIN j.o |->
                             IF HasField(t, j.o[i][1])
                             THEN Under(j.o[i][1],
                                        De(FieldOf(t, j.o[i][1]).type, j.o[i][2]))
                             ELSE Ok(JNull)])
           ELSE IF j.t = "arr"
           THEN visit_seq(t, j.a,
                          [n \in 1..Min({Len(j.a), Len(t.fields)}) |->
                             Under("[]", De(t.fields[n].type, j.a[n]))])
           ELSE InvalidType("struct")

\* serde_json::from_str::<Bundle>: read the text, map it onto the struct.
AndThenBundle(r) == IF r.ok THEN De(Bundle, r.val) ELSE r
FromStr(text) == AndThenBundle(ParseJson(text))

(***************************************************************************)
(* Bundle values built directly (struct literals), as a caller or a test   *)
(* writes them.  A shape says which Option fields of Bundle are Some       *)
(* (present), which of those hold an empty collection or string (empty),   *)
(* which Option fields of the nested entities are Some (nested), whether   *)
(* the paths are valid UTF-8 (utf8), the booleans' value (flag), the       *)
(* number of invocation images (ninv) and the version.                     *)
(***************************************************************************)
OptFields ==
    {"actions", "credentials", "custom", "definitions", "description", "images",
     "keywords", "license", "maintainers", "outputs", "parameters"}
NestedFields ==
    {"env", "path", "arch", "os", "platform", "required", "applyTo", "description",
     "size", "labels", "email"}

EmptyMap == [k \in {} |-> FALSE]

\* Version::new(major, minor, patch), and versions with pre-release and build.
VersionNew(major, minor, patch) ==
    [major |-> major, minor |-> minor, patch |-> patch, pre |-> <<>>, build |-> <<>>]
DirectVersions ==
    <<VersionNew(1, 0, 0), VersionNew(0, 1, 2), VersionNew(2, 10, 1),
      [VersionNew(1, 0, 0) EXCEPT !.pre = <<"a">>],
      [VersionNew(1, 0, 0) EXCEPT !.build = <<"b">>],
      [VersionNew(1, 0, 0) EXCEPT !.pre = <<"a">>, !.build = <<"b">>],
      [VersionNew(1, 0, 0) EXCEPT !.pre = <<"a", ".", "1">>]>>

OptOf(cond, x) == IF cond THEN Some(x) ELSE None

PathOf(sh, s) == IF sh.utf8 THEN PathBuf(s) ELSE RawPath(s)

MkDestination(sh) ==
    [env |-> OptOf("env" \in sh.nested, "FIRST"),
     path |-> OptOf("path" \in sh.nested, PathOf(sh, "/path/to/num"))]

MkParameter(sh) ==
    [apply_to |-> OptOf("applyTo" \in sh.nested, <<"uninstall", "install">>),
     definition |-> OptOf("description" \in sh.nested, "somedef"),
     description |-> OptOf("description" \in sh.nested, "this is a description"),
     destination |-> MkDestination(sh),
     required |-> OptOf("required" \in sh.nested, sh.flag)]

MkCredential(sh) ==
    [description |-> OptOf("description" \in sh.nested, "token"),
     env |-> OptOf("env" \in sh.nested, "TOKEN"),
     path |-> OptOf("path" \in sh.nested, PathOf(sh, "/etc/config")),
     required |-> OptOf("required" \in sh.nested, sh.flag)]

MkAction(sh) ==
    [description |-> OptOf("description" \in sh.nested, "a custom action"),
     modifies |-> sh.flag, stateless |-> ~sh.flag]

MkOutput(sh) ==
    [apply_to |-> OptOf("applyTo" \in sh.nested, <<"example">>),
     definition |-> "somedef",
     description |-> OptOf("description" \in sh.nested, "does stuff"),
     path |-> OptOf("path" \in sh.nested, PathOf(sh, "/var/run/hello"))]

MkPlatform(sh) ==
    [arch |-> OptOf("arch" \in sh.nested, "amd64"), os |-> OptOf("os" \in sh.nested, "linux")]

MkImage(sh) ==
    [description |-> OptOf("description" \in sh.nested, "web server"),
     content_digest |-> OptOf("description" \in sh.nested, "sha256:aaaa"),
     image |-> "nginx:latest",
     image_type |-> OptOf("description" \in sh.nested, "oci"),
     media_type |-> OptOf("description" \in sh.nested, "application/x-image-thinger"),
     platform |-> OptOf("platform" \in sh.nested, MkPlatform(sh)),
     size |-> OptOf("size" \in sh.nested, 1234),
     labels |-> OptOf("labels" \in sh.nested, [a |-> "x", b |-> "y"])]

MkInvocationImage(sh) ==
    [content_digest |-> OptOf("description" \in sh.nested, "sha256:bbbb"),
     image |-> "cnab/helloworld:latest",
     image_type |-> OptOf("description" \in sh.nested, "docker"),
     media_type |-> OptOf("description" \in sh.nested, "application/x-image-thinger"),
     size |-> OptOf("size" \in sh.nested, 5678),
     labels |-> OptOf("labels" \in sh.nested, EmptyMap)]

MkMaintainer(sh, n) ==
    [email |-> OptOf("email" \in sh.nested, "m@example.com"), name |-> n,
     url |-> OptOf("email" \in sh.nested, "https://example.com")]

\* An arbitrary JSON value of the extension space.
MkValue(sh) ==
    VObj([techne |-> JBool(sh.flag),
          a |-> JArr(<<JNum(1), JNull, JStr("x"), VObj(EmptyMap)>>),
          b |-> JNull])

\* The value of Option field f: None, Some(empty) or Some(full).
MkOpt(sh, f, empty, full) ==
    IF f \notin sh.present THEN None
    ELSE IF f \in sh.empty THEN Some(empty) ELSE Some(full)

MkBundle(sh) ==
    [actions |-> MkOpt(sh, "actions", EmptyMap, [a |-> MkAction(sh)]),
     credentials |-> MkOpt(sh, "credentials", EmptyMap,
                           [k2 |-> MkCredential(sh), k1 |-> MkCredential(sh)]),
     custom |-> MkOpt(sh, "custom", EmptyMap,
                      [k \in {"com.example.praxis"} |-> MkValue(sh)]),
     definitions |-> MkOpt(sh, "definitions", EmptyMap,
                           [c |-> VObj([a |-> JStr("string")])]),
     description |-> MkOpt(sh, "description", "", "a bundle"),
     images |-> MkOpt(sh, "images", EmptyMap, [b |-> MkImage(sh)]),
     invocation_images |-> [i \in 1..sh.ninv |-> MkInvocationImage(sh)],
     keywords |-> MkOpt(sh, "keywords", <<>>, <<"c", "a", "b", "a">>),
     license |-> MkOpt(sh, "license", "", "MIT"),
     maintainers |-> MkOpt(sh, "maintainers", <<>>,
                           <<MkMaintainer(sh, "zoe"), MkMaintainer(sh, "abe")>>),
     name |-> "aristotle",
     outputs |-> MkOpt(sh, "outputs", EmptyMap, [a |-> MkOutput(sh)]),
     parameters |-> MkOpt(sh, "parameters", EmptyMap, [b |-> MkParameter(sh)]),
     schema_version |-> "1.0",
     version |-> sh.version]

(***************************************************************************)
(* bundle.json documents as they arrive on the wire, written by hand for   *)
(* the same shapes: an Option field that is None is left out (not null),   *)
(* and members come in an order of the author's choosing (here: required   *)
(* keys first, the rest in reverse).  A deviation changes one thing:       *)
(*   missing   member k of entity e is left out                            *)
(*   replace   member k of entity e has the value j                        *)
(*   extra     entity e has one more member k (no field of the struct)     *)
(*   truncate  the text ends after n tokens                                *)
(*   garbage   the text is {hello                                          *)
(*   trailing  the text is followed by one more token                      *)
(*   positional the top-level object is written as an array of its values  *)
(*   unreadable the reader handed to from_json fails while it is read       *)
(*   repeat    mapping e has key k twice, with the value j after (n = 1) or *)
(*             before (n = 2) the value it has otherwise                    *)
(*   reordered the members of every entity and mapping come in the reverse  *)
(*             order                                                        *)
(***************************************************************************)
Dev(kind, e, k, j, n) == [kind |-> kind, e |-> e, k |-> k, j |-> j, n |-> n]
NoDev == Dev("none", "", "", JNull, 0)

\* Member k of entity e, present when cond holds, unless the deviation says otherwise.
Mem(dev, e, k, cond, v) ==
    IF dev.kind = "missing" /\ dev.e = e /\ dev.k = k THEN <<>>
    ELSE IF dev.kind = "replace" /\ dev.e = e /\ dev.k = k THEN << <<k, dev.j>> >>
    ELSE IF cond THEN << <<k, v>> >>
    ELSE <<>>

Extra(dev, e) == IF dev.kind = "extra" /\ dev.e = e THEN << <<dev.k, dev.j>> >> ELSE <<>>

\* The members ms of mapping e, with a key repeated if the deviation says so.
Repeat(dev, e, ms) ==
    IF dev.kind = "repeat" /\ dev.e = e
    THEN IF dev.n = 1 THEN ms \o << <<dev.k, dev.j>> >> ELSE << <<dev.k, dev.j>> >> \o ms
    ELSE ms

Strs(xs) == JArr([i \in DOMAIN xs |-> JStr(xs[i])])

DocDestination(sh, dev) ==
    JObj(Mem(dev, "Destination", "path", "path" \in sh.nested, JStr("/path/to/num"))
         \o Extra(dev, "Destination")
         \o Mem(dev, "Destination", "env", "env" \in sh.nested, JStr("FIRST")))

DocParameter(sh, dev) ==
    JObj(Mem(dev, "Parameter", "description", "description" \in sh.nested,
             JStr("this is a description"))
         \o Mem(dev, "Parameter", "destination", TRUE, DocDestination(sh, dev))
         \o Mem(dev, "Parameter", "definition", "description" \in sh.nested, JStr("somedef"))
         \o Extra(dev, "Parameter")
         \o Mem(dev, "Parameter", "required", "required" \in sh.nested, JBool(sh.flag))
         \o Mem(dev, "Parameter", "applyTo", "applyTo" \in sh.nested,
                Strs(<<"uninstall", "install">>)))

DocCredential(sh, dev) ==
    JObj(Mem(dev, "Credential", "required", "required" \in sh.nested, JBool(sh.flag))
         \o Mem(dev, "Credential", "path", "path" \in sh.nested, JStr("/etc/config"))
         \o Mem(dev, "Credential", "env", "env" \in sh.nested, JStr("TOKEN"))
         \o Mem(dev, "Credential", "description", "description" \in sh.nested, JStr("token"))
         \o Extra(dev, "Credential"))

DocAction(sh, dev) ==
    JObj(Mem(dev, "Action", "modifies", TRUE, JBool(sh.flag))
         \o Mem(dev, "Action", "stateless", TRUE, JBool(~sh.flag))
         \o Extra(dev, "Action")
         \o Mem(dev, "Action", "description", "description" \in sh.nested,
                JStr("a custom action")))

DocOutput(sh, dev) ==
    JObj(Mem(dev, "Output", "path", "path" \in sh.nested, JStr("/var/run/hello"))
         \o Mem(dev, "Output", "definition", TRUE, JStr("somedef"))
         \o Mem(dev, "Output", "description", "description" \in sh.nested, JStr("does stuff"))
         \o Extra(dev, "Output")
         \o Mem(dev, "Output", "applyTo", "applyTo" \in sh.nested, Strs(<<"example">>)))

DocPlatform(sh, dev) ==
    JObj(Mem(dev, "Platform", "os", "os" \in sh.nested, JStr("linux"))
         \o Extra(dev, "Platform")
         \o Mem(dev, "Platform", "arch", "arch" \in sh.nested, JStr("amd64")))

DocImage(sh, dev) ==
    JObj(Mem(dev, "Image", "image", TRUE, JStr("nginx:latest"))
         \o Mem(dev, "Image", "imageType", "description" \in sh.nested, JStr("oci"))
         \o Mem(dev, "Image", "mediaType", "description" \in sh.nested,
                JStr("application/x-image-thinger"))
         \o Mem(dev, "Image", "platform", "platform" \in sh.nested, DocPlatform(sh, dev))
         \o Mem(dev, "Image", "size", "size" \in sh.nested, JNum(1234))
         \o Extra(dev, "Image")
         \o Mem(dev, "Image", "labels", "labels" \in sh.nested,
                JObj(<< <<"b", JStr("y")>>, <<"a", JStr("x")>> >>))
         \o Mem(dev, "Image", "contentDigest", "description" \in sh.nested,
                JStr("sha256:aaaa"))
         \o Mem(dev, "Image", "description", "description" \in sh.nested, JStr("web server")))

DocInvocationImage(sh, dev) ==
    JObj(Mem(dev, "InvocationImage", "image", TRUE, JStr("cnab/helloworld:latest"))
         \o Mem(dev, "InvocationImage", "imageType", "description" \in sh.nested,
                JStr("docker"))
         \o Mem(dev, "InvocationImage", "mediaType", "description" \in sh.nested,
                JStr("application/x-image-thinger"))
         \o Mem(dev, "InvocationImage", "size", "size" \in sh.nested, JNum(5678))
         \o Extra(dev, "InvocationImage")
         \o Mem(dev, "InvocationImage", "labels", "labels" \in sh.nested, JObj(<<>>))
         \o Mem(dev, "InvocationImage", "contentDigest", "description" \in sh.nested,
                JStr("sha256:bbbb")))

DocMaintainer(sh, dev, n) ==
    JObj(Mem(dev, "Maintainer", "url", "email" \in sh.nested, JStr("https://example.com"))
         \o Mem(dev, "Maintainer", "name", TRUE, JStr(n))
         \o Extra(dev, "Maintainer")
         \o Mem(dev, "Maintainer", "email", "email" \in sh.nested, JStr("m@example.com")))

DocValue(sh) ==
    JObj(<< <<"techne", JBool(sh.flag)>>,
            <<"b", JNull>>,
            <<"a", JArr(<<JNum(1), JNull, JStr("x"), JObj(<<>>)>>)>> >>)

\* The value of optional key f: empty or full.
DocOpt(sh, f, empty, full) == IF f \in sh.empty THEN empty ELSE full

DocOf(sh, dev) ==
    LET has(f) == f \in sh.present
        m(k, f, empty, full) == Mem(dev, "Bundle", k, has(f), DocOpt(sh, f, empty, full))
    IN
    JObj(Mem(dev, "Bundle", "name", TRUE, JStr("aristotle"))
         \o Mem(dev, "Bundle", "invocationImages", TRUE,
                JArr([i \in 1..sh.ninv |-> DocInvocationImage(sh, dev)]))
         \o Mem(dev, "Bundle", "schemaVersion", TRUE, JStr("1.0"))
         \o Mem(dev, "Bundle", "version", TRUE, JStr(FromChars(VersionChars(sh.version))))
         \o m("parameters", "parameters", JObj(<<>>),
              JObj(Repeat(dev, "parameters", << <<"b", DocParameter(sh, dev)>> >>)))
         \o m("outputs", "outputs", JObj(<<>>),
              JObj(Repeat(dev, "outputs", << <<"a", DocOutput(sh, dev)>> >>)))
         \o m("maintainers", "maintainers", JArr(<<>>),
              JArr(<<DocMaintainer(sh, dev, "zoe"), DocMaintainer(sh, dev, "abe")>>))
         \o m("license", "license", JStr(""), JStr("MIT"))
         \o Extra(dev, "Bundle")
         \o m("keywords", "keywords", JArr(<<>>), Strs(<<"c", "a", "b", "a">>))
         \o m("images", "images", JObj(<<>>),
              JObj(Repeat(dev, "images", << <<"b", DocImage(sh, dev)>> >>)))
         \o m("description", "description", JStr(""), JStr("a bundle"))
         \o m("definitions", "definitions", JObj(<<>>),
              JObj(Extra(dev, "definitions")
                   \o Repeat(dev, "definitions",
                             << <<"c", JObj(<< <<"a", JStr("string")>> >>)>> >>)))
         \o m("custom", "custom", JObj(<<>>),
              JObj(Repeat(dev, "custom", << <<"com.example.praxis", DocValue(sh)>> >>)
                   \o Extra(dev, "custom")))
         \o m("credentials", "credentials", JObj(<<>>),
              JObj(Repeat(dev, "credentials",
                          << <<"k2", DocCredential(sh, dev)>>,
                             <<"k1", DocCredential(sh, dev)>> >>)))
         \o m("actions", "actions", JObj(<<>>),
              JObj(Repeat(dev, "actions", << <<"a", DocAction(sh, dev)>> >>))))

\* The object doc written as an array: the values of the keys, in their order,
\* with null where doc has no such member.
Positional(doc, keys) ==
    JArr([n \in DOMAIN keys |->
            IF \E i \in DOMAIN doc.o : doc.o[i][1] = keys[n]
            THEN doc.o[CHOOSE i \in DOMAIN doc.o : doc.o[i][1] = keys[n]][2]
            ELSE JNull])

\* The document j of type t with the members of every entity and of every
\* mapping in the reverse order.
RECURSIVE Reordered(_, _)
Reordered(t, j) ==
    CASE j.t = "arr" /\ t.ty = "Vec" ->
           JArr([i \in DOMAIN j.a |-> Reordered(t.of, j.a[i])])
      [] j.t = "obj" /\ t.ty = "BTreeMap" ->
           JObj([i \in DOMAIN j.o |->
                   <<j.o[Len(j.o) + 1 - i][1],
                     Reordered(t.of, j.o[Len(j.o) + 1 - i][2])>>])
      [] j.t = "obj" /\ t.ty = "struct" ->
           JObj([i \in DOMAIN j.o |->
                   <<j.o[Len(j.o) + 1 - i][1],
                     Reordered(FieldOf(t, j.o[Len(j.o) + 1 - i][1]).type,
                               j.o[Len(j.o) + 1 - i][2])>>])
      [] t.ty = "Option" -> Reordered(t.of, j)
      [] OTHER -> j

\* The text handed to the parser.
TextOf(sh, dev) ==
    LET whole == WriteJson(DocOf(sh, dev)) IN
    CASE dev.kind = "truncate"   -> SubSeq(whole, 1, dev.n)
      [] dev.kind = "garbage"    -> <<P("{"), Bad("hello")>>
      [] dev.kind = "trailing"   -> whole \o <<P("}")>>
      [] dev.kind = "positional" -> WriteJson(Positional(DocOf(sh, NoDev), WireKeys(Bundle)))
      [] dev.kind = "reordered"  -> WriteJson(Reordered(Bundle, DocOf(sh, NoDev)))
      [] OTHER                   -> whole

(***************************************************************************)
(* The three entry points.                                                 *)
(***************************************************************************)
\* BundleParseError (cnab.rs), built by the two From impls that `?` applies.
SerdeJSONError(e) == [kind |-> "BundleParseError", variant |-> "SerdeJSONError", e |-> e]
IoError(e) == [kind |-> "BundleParseError", variant |-> "IoError", e |-> e]

\* serde_json::from_reader: an error of the reader ends the parse with an error
\* of category Io; otherwise the bytes read are parsed like a string.
FromReader(reader) ==
    IF reader.fails THEN Err(JsonError("Io", "Io", reader.why))
    ELSE FromStr(reader.data)

\* Bundle::from_json.
from_json(reader) ==
    LET r == FromReader(reader) IN IF r.ok THEN r ELSE Err(SerdeJSONError(r.err))

\* A reader over bytes in memory.
BytesReader(text) == [data |-> text, fails |-> FALSE, why |-> ""]

\* The file system: what is at a path.
\* kind is "missing" (nothing there), "file", "dir" or "denied" (not readable).
Entry(kind, data) == [kind |-> kind, data |-> data]

\* FileOpen creating the file that is not there (OpenOptions::create).
FileOpenCreate(entry) ==
    CASE entry.kind = "missing" -> Ok(Entry("file", <<>>))
      [] entry.kind = "denied"  -> Err("PermissionDenied")
      [] OTHER                  -> Ok(entry)

\* File::open: an io::Error, or a handle on the entry.
FileOpen(entry) ==
    CASE entry.kind = "missing" -> Err("NotFound")
      [] entry.kind = "denied"  -> Err("PermissionDenied")
      [] OTHER                  -> Ok(entry)

\* impl Read for File: reading a directory fails (EISDIR).
FileReader(entry) ==
    [data |-> entry.data, fails |-> entry.kind = "dir", why |-> "IsADirectory"]

(***************************************************************************)
(* Bounds of the inputs.                                                   *)
(***************************************************************************)
MaxPresent == 1
MaxAbsent == 1
MaxNested == 1
MaxInv == 1

SubsetsUpTo(S, n) == {T \in SUBSET S : Cardinality(T) <= n}

Shape(present, empty, nested, utf8, flag, ninv, version) ==
    [present |-> present, empty |-> empty, nested |-> nested, utf8 |-> utf8,
     flag |-> flag, ninv |-> ninv, version |-> version]

\* Few Option fields Some, or few None; none of the present ones empty, or all.
PresentChoices ==
    SubsetsUpTo(OptFields, MaxPresent)
    \cup {OptFields \ T : T \in SubsetsUpTo(OptFields, MaxAbsent)}
ShapesA ==
    {Shape(p, e, n, TRUE, TRUE, 0, DirectVersions[1]) :
        p \in PresentChoices, e \in {{}, OptFields}, n \in {{}, NestedFields}}
\* Everything present, few nested Option fields Some.
ShapesB ==
    {Shape(OptFields, {}, n, TRUE, TRUE, 1, DirectVersions[1]) :
        n \in SubsetsUpTo(NestedFields, MaxNested)}
\* Everything present and Some: the versions, the flags, the invocation images.
ShapesC ==
    {Shape(OptFields, {}, NestedFields, TRUE, v % 2 = 1, v % (MaxInv + 1),
           DirectVersions[v]) : v \in DOMAIN DirectVersions}
FullShape == Shape(OptFields, {}, NestedFields, TRUE, TRUE, 1, DirectVersions[1])
SmallShape == Shape({"parameters"}, {}, {"env"}, TRUE, TRUE, 0, DirectVersions[1])

\* The shapes of the documents: only the present fields can be empty.
WireShapes ==
    {[sh EXCEPT !.empty = sh.empty \cap sh.present] :
        sh \in ShapesA \cup ShapesB \cup ShapesC}

\* The shapes of the Bundles built directly: those of the documents, and for
\* each that holds a path the same with paths that are not valid UTF-8.
DirectShapes ==
    WireShapes
    \cup {[sh EXCEPT !.utf8 = FALSE] :
            sh \in {x \in WireShapes :
                      /\ "path" \in x.nested
                      /\ (x.present \ x.empty)
                            \cap {"credentials", "outputs", "parameters"} # {}}}

RequiredMembers ==
    {<<"Bundle", "name">>, <<"Bundle", "version">>, <<"Bundle", "schemaVersion">>,
     <<"Bundle", "invocationImages">>, <<"Image", "image">>,
     <<"InvocationImage", "image">>, <<"Maintainer", "name">>,
     <<"Output", "definition">>, <<"Parameter", "destination">>}
FlagMembers ==
    {<<"Action", "modifies">>, <<"Action", "stateless">>, <<"Parameter", "required">>,
     <<"Credential", "required">>}
ImageTypeMembers == {<<"Image", "imageType">>, <<"InvocationImage", "imageType">>}
\* The sequences, and arrays for each: neither sorted nor free of repetitions.
SeqMembers ==
    {<<"Bundle", "keywords">>, <<"Bundle", "maintainers">>,
     <<"Bundle", "invocationImages">>, <<"Parameter", "applyTo">>,
     <<"Output", "applyTo">>}
SeqSamples(k) ==
    CASE k = "maintainers" ->
           <<JArr(<<JObj(<< <<"name", JStr("zoe")>> >>),
                    JObj(<< <<"email", JStr("m@example.com")>>, <<"name", JStr("abe")>> >>),
                    JObj(<< <<"name", JStr("zoe")>> >>)>>)>>
      [] k = "invocationImages" ->
           <<JArr(<<JObj(<< <<"image", JStr("nginx:latest")>> >>),
                    JObj(<< <<"image", JStr("cnab/helloworld:latest")>>,
                            <<"size", JNum(1234)>> >>),
                    JObj(<< <<"image", JStr("nginx:latest")>> >>)>>)>>
      [] OTHER ->
           <<Strs(<<"b", "a", "b", "c", "a">>), Strs(<<"uninstall", "install", "install">>),
             Strs(<<"c", "b", "a">>)>>
\* Sizes: negative, zero, that of the tests, and 2^63.
SizeSamples ==
    <<JNum(-1), JNum(0), JNum(1234567890),
      JBig(<<"9", "2", "2", "3", "3", "7", "2", "0", "3", "6", "8", "5", "4", "7", "7",
             "5", "8", "0", "8">>)>>
Entities ==
    {"Bundle", "Image", "InvocationImage", "Maintainer", "Platform", "Credential",
     "Parameter", "Action", "Destination", "Output"}
EntityKeys(e) == Range(WireKeys(CHOOSE t \in Structs : t.name = e))

\* Values of every JSON type to put where another is expected.
TypeSamples ==
    <<JNull, JBool(TRUE), JNum(1), JStr("1.0.0"), JArr(<<>>), JArr(<<JNull, JNull>>),
      JObj(<<>>)>>

\* Values of the extension space: on the wire (j) and as serde_json::Value (v).
JsonSamples ==
    <<[j |-> JNull, v |-> JNull],
      [j |-> JBool(FALSE), v |-> JBool(FALSE)],
      [j |-> JNum(7), v |-> JNum(7)],
      [j |-> JStr(""), v |-> JStr("")],
      [j |-> JArr(<<>>), v |-> JArr(<<>>)],
      [j |-> JObj(<<>>), v |-> VObj(EmptyMap)],
      [j |-> JArr(<<JNull, JArr(<<JNum(1)>>), JObj(<< <<"a", JNull>> >>)>>),
       v |-> JArr(<<JNull, JArr(<<JNum(1)>>), VObj([a |-> JNull])>>)],
      [j |-> JObj(<< <<"b", JObj(<< <<"c", JArr(<<JBool(TRUE), JNull>>)>>,
                                    <<"a", JNull>> >>)>>,
                     <<"a", JStr("x")>> >>),
       v |-> VObj([a |-> JStr("x"),
                   b |-> VObj([a |-> JNull, c |-> JArr(<<JBool(TRUE), JNull>>)])])]>>

\* One member of the full document missing, replaced or added: a required
\* member, a flag or an image type missing; a required member of every JSON
\* type; a flag set; the image type "oci"; a size; a sequence; a value under a key of custom or
\* definitions; a member no struct names; a key of each mapping repeated with
\* another value.
MemberDevs ==
    {Dev("missing", m[1], m[2], JNull, 0) :
        m \in RequiredMembers \cup FlagMembers \cup ImageTypeMembers}
    \cup {Dev("replace", m[1], m[2], JStr("oci"), 0) : m \in ImageTypeMembers}
    \cup {Dev("replace", e, "size", SizeSamples[i], i) :
            e \in {"Image", "InvocationImage"}, i \in DOMAIN SizeSamples}
    \cup UNION {{Dev("replace", m[1], m[2], SeqSamples(m[2])[i], i) :
                    i \in DOMAIN SeqSamples(m[2])} : m \in SeqMembers}
    \cup {Dev("replace", m[1], m[2], TypeSamples[i], 0) :
            m \in RequiredMembers, i \in DOMAIN TypeSamples}
    \cup {Dev("replace", m[1], m[2], JBool(b), 0) : m \in FlagMembers, b \in BOOLEAN}
    \cup {Dev("extra", e, k, JsonSamples[i].j, i) :
            e \in {"custom", "definitions"}, k \in {"a", "techne"},
            i \in DOMAIN JsonSamples}
    \cup {d \in {Dev("extra", e, k, j, 0) :
                    e \in Entities, k \in {"labels", "metadata", "x-unknown"},
                    j \in {JStr("x"), JArr(<<JStr("hello"), JStr("world")>>)}} :
            d.k \notin EntityKeys(d.e)}
    \cup
    {Dev("repeat", m[1], m[2], m[3], n) :
        m \in {<<"images", "b", JObj(<< <<"image", JStr("other")>> >>)>>,
               <<"parameters", "b", JObj(<< <<"destination", JObj(<<>>)>> >>)>>,
               <<"credentials", "k1", JObj(<< <<"env", JStr("OTHER")>> >>)>>,
               <<"credentials", "k2", JObj(<<>>)>>,
               <<"actions", "a", JObj(<<>>)>>,
               <<"outputs", "a", JObj(<< <<"definition", JStr("other")>> >>)>>,
               <<"custom", "com.example.praxis", JNum(7)>>,
               <<"definitions", "c", JBool(FALSE)>>},
        n \in {1, 2}}
\* The version of the full document replaced by each text.
VersionDevs ==
    {Dev("replace", "Bundle", "version", JStr(VersionTexts[i]), i) :
        i \in DOMAIN VersionTexts}
\* The text of the small document cut short, replaced or continued.
TextDevs ==
    {Dev("truncate", "", "", JNull, n) :
        n \in 0..(Len(WriteJson(DocOf(SmallShape, NoDev))) - 1)}
    \cup {Dev("garbage", "", "", JNull, 0), Dev("trailing", "", "", JNull, 0)}

\* The arguments of the calls: a shape and a deviation.
SerializeInputs == {[sh |-> sh, dev |-> NoDev] : sh \in DirectShapes}
ParseInputs ==
    {[sh |-> sh, dev |-> NoDev] : sh \in WireShapes}
    \cup {[sh |-> FullShape, dev |-> d] : d \in MemberDevs \cup VersionDevs}
    \cup {[sh |-> SmallShape, dev |-> d] : d \in TextDevs}
    \cup {[sh |-> sh, dev |-> Dev(kind, "", "", JNull, 0)] :
            sh \in ShapesC, kind \in {"positional", "reordered"}}
ReaderInputs ==
    {[sh |-> sh, dev |-> NoDev] : sh \in ShapesC}
    \cup {[sh |-> FullShape, dev |-> Dev("unreadable", "", "", JNull, 0)]}
    \cup {[sh |-> FullShape, dev |-> d] : d \in VersionDevs}
    \cup {[sh |-> SmallShape, dev |-> d] : d \in TextDevs}
FileInputs ==
    {[sh |-> FullShape, dev |-> NoDev], [sh |-> SmallShape, dev |-> NoDev],
     [sh |-> SmallShape, dev |-> Dev("garbage", "", "", JNull, 0)],
     [sh |-> SmallShape, dev |-> Dev("truncate", "", "", JNull, 0)],
     [sh |-> FullShape, dev |-> Dev("missing", "Bundle", "name", JNull, 0)]}

(***************************************************************************)
(* Claims, built directly and as documents (the one of test_claim).  A     *)
(* claim c has the Bundle of shape c.sh, the status c.status and, as its   *)
(* custom, nothing (c.custom = 0) or the c.custom-th value of JsonSamples, *)
(* the first of which is null.                                             *)
(***************************************************************************)
MkClaim(c) ==
    [bundle |-> MkBundle(c.sh),
     created |-> [utc |-> "2018-08-31T02:39:55.549002887Z"],
     custom |-> IF c.custom = 0 THEN None ELSE Some(JsonSamples[c.custom].v),
     modified |-> [utc |-> "1970-01-01T00:00:00Z"],
     name |-> "claimtest",
     outputs |-> Some([one |-> "output 1", two |-> "output 2"]),
     parameters |-> None,
     result |-> [action |-> "install", message |-> Some("installed wordpress"),
                 status |-> c.status],
     revision |-> "01CP6XM0KVB9V1BQDZ9NK8VP29",
     bundle_reference |-> Some("hub.example.com/my/bundle@sha256:eeeeeeeee...")]

DocClaim(c, dev) ==
    JObj(<< <<"name", JStr("claimtest")>>, <<"bundle", DocOf(c.sh, NoDev)>>,
            <<"bundleReference", JStr("hub.example.com/my/bundle@sha256:eeeeeeeee...")>>,
            <<"created", JStr("2018-08-30T20:39:55.549002887-06:00")>>,
            <<"modified", JStr("1970-01-01T01:00:00+01:00")>> >>
         \o Mem(dev, "Claim", "result", TRUE,
                JObj(Mem(dev, "Response", "action", TRUE, JStr("install"))
                     \o Mem(dev, "Response", "message", TRUE, JStr("installed wordpress"))
                     \o Mem(dev, "Response", "status", TRUE, JStr(CamelCase(c.status)))))
         \o Mem(dev, "Claim", "custom", c.custom # 0,
                JsonSamples[IF c.custom = 0 THEN 1 ELSE c.custom].j)
         \o << <<"outputs", JObj(<< <<"two", JStr("output 2")>>,
                                    <<"one", JStr("output 1")>> >>)>>,
               <<"revision", JStr("01CP6XM0KVB9V1BQDZ9NK8VP29")>> >>)

\* What a document has as the status of its result: the wire strings, other
\* strings, other JSON types, and objects.
StatusSamples ==
    <<JStr("success"), JStr("failure"), JStr("pending"), JStr("Success"),
      JStr("SUCCESS"), JStr("succeeded"), JStr(""), JNull, JBool(TRUE), JNum(0),
      JArr(<<JStr("success")>>), JObj(<<>>),
      JObj(<< <<"success", JNull>> >>), JObj(<< <<"Success", JNull>> >>),
      JObj(<< <<"success", JStr("x")>> >>),
      JObj(<< <<"success", JNull>>, <<"failure", JNull>> >>)>>

\* The claims: every custom and status with two Bundles, and the documents
\* with the status missing or replaced.
ClaimInputs ==
    {[sh |-> sh, dev |-> NoDev, custom |-> c, status |-> st] :
        sh \in {SmallShape, FullShape}, c \in 0..Len(JsonSamples),
        st \in Range(Status.variants)}
    \cup {[sh |-> SmallShape, dev |-> d, custom |-> 0, status |-> "Success"] :
            d \in {Dev("missing", "Response", "status", JNull, 0)}
                  \cup {Dev("replace", "Response", "status", StatusSamples[i], i) :
                          i \in DOMAIN StatusSamples}}

Paths == {"no/such/file.json", "testdata/bundle.json", "testdata", "secret.json"}
FileSystem(text) ==
    [p \in Paths |->
        CASE p = "testdata/bundle.json" -> Entry("file", text)
          [] p = "testdata"             -> Entry("dir", <<>>)
          [] p = "secret.json"          -> Entry("denied", <<>>)
          [] OTHER                      -> Entry("missing", <<>>)]

(***************************************************************************)
(* The state: one call of an entry point, from its arguments to its        *)
(* result.                                                                 *)
(***************************************************************************)
VARIABLES
    op,       \* the call: "to_string", "from_str", "from_json", "from_file", or
              \* for a Claim "claim_to_string" or "claim_from_str"
    input,    \* how the caller built the argument: a shape and a deviation
    bundle,   \* the Bundle or the Claim handed to serde_json::to_string
    text,     \* the JSON text held: the parser's input, or to_string's output
    path,     \* the path handed to Bundle::from_file
    fs,       \* the file system
    pc,       \* where the call stands
    ser,      \* the result of serde_json::to_string
    res,      \* the result of the parse
    file,     \* the open File of from_file
    handles,  \* the number of file handles the call holds open
    parses    \* the number of times the JSON parser was invoked

vars == <<op, input, bundle, text, path, fs, pc, ser, res, file, handles, parses>>

Pending == [pending |-> TRUE]

Init ==
    /\ pc = "call"
    /\ ser = Pending
    /\ res = Pending
    /\ file = Pending
    /\ handles = 0
    /\ parses = 0
    /\ \/ /\ op = "to_string"
          /\ input \in SerializeInputs
          /\ bundle = MkBundle(input.sh)
          /\ text = <<>>
          /\ path = ""
          /\ fs = FileSystem(<<>>)
       \/ /\ op = "from_str"
          /\ input \in ParseInputs
          /\ bundle = Pending
          /\ text = TextOf(input.sh, input.dev)
          /\ path = ""
          /\ fs = FileSystem(<<>>)
       \/ /\ op = "from_json"
          /\ input \in ReaderInputs
          /\ bundle = Pending
          /\ text = TextOf(input.sh, input.dev)
          /\ path = ""
          /\ fs = FileSystem(<<>>)
       \/ /\ op = "from_file"
          /\ input \in FileInputs
          /\ bundle = Pending
          /\ text = <<>>
          /\ path \in Paths
          /\ fs = FileSystem(TextOf(input.sh, input.dev))
       \/ /\ op = "claim_to_string"
          /\ input \in ClaimInputs
          /\ input.dev = NoDev
          /\ bundle = MkClaim(input)
          /\ text = <<>>
          /\ path = ""
          /\ fs = FileSystem(<<>>)
       \/ /\ op = "claim_from_str"
          /\ input \in ClaimInputs
          /\ bundle = Pending
          /\ text = WriteJson(DocClaim(input, input.dev))
          /\ path = ""
          /\ fs = FileSystem(<<>>)

\* serde_json::to_string(&bundle).
Serialize ==
    /\ op = "to_string" /\ pc = "call"
    /\ ser' = to_string(bundle)
    /\ text' = IF ser'.ok THEN ser'.val ELSE text
    /\ pc' = "serialized"
    /\ UNCHANGED <<op, input, bundle, path, fs, res, file, handles, parses>>

\* The caller parses what it serialized: Bundle::from_str(&text).
ParseBack ==
    /\ op = "to_string" /\ pc = "serialized" /\ ser.ok
    /\ res' = FromStr(text)
    /\ parses' = parses + 1
    /\ pc' = "done"
    /\ UNCHANGED <<op, input, bundle, text, path, fs, ser, file, handles>>

\* <Bundle as FromStr>::from_str(json_data).
FromStrCall ==
    /\ op = "from_str" /\ pc = "call"
    /\ res' = FromStr(text)
    /\ parses' = parses + 1
    /\ pc' = "parsed"
    /\ UNCHANGED <<op, input, bundle, text, path, fs, ser, file, handles>>

\* The caller serializes the Bundle it parsed.
Reserialize ==
    /\ op = "from_str" /\ pc = "parsed" /\ res.ok
    /\ ser' = to_string(res.val)
    /\ pc' = "done"
    /\ UNCHANGED <<op, input, bundle, text, path, fs, res, file, handles, parses>>

\* Bundle::from_json(reader) on bytes in memory, or on a reader whose read
\* returns an io::Error.
FromJsonCall ==
    /\ op = "from_json" /\ pc = "call"
    /\ res' = from_json([BytesReader(text) EXCEPT
                            !.fails = (input.dev.kind = "unreadable"),
                            !.why = "ConnectionReset"])
    /\ parses' = parses + 1
    /\ pc' = "done"
    /\ UNCHANGED <<op, input, bundle, text, path, fs, ser, file, handles>>

\* Bundle::from_file, first line: File::open(path)?
FromFileOpen ==
    /\ op = "from_file" /\ pc = "call"
    /\ LET r == FileOpen(fs[path]) IN
       IF r.ok
       THEN /\ file' = r.val
            /\ handles' = handles + 1
            /\ pc' = "opened"
            /\ res' = res
       ELSE /\ res' = Err(IoError(r.err))
            /\ pc' = "done"
            /\ UNCHANGED <<file, handles>>
    /\ UNCHANGED <<op, input, bundle, text, path, fs, ser, parses>>

\* FromFileParse keeping the File open when the parse fails (as if the error
\* path forgot the reader instead of dropping it).
FromFileParseLeak ==
    /\ op = "from_file" /\ pc = "opened"
    /\ res' = from_json(FileReader(file))
    /\ parses' = parses + 1
    /\ handles' = IF res'.ok THEN handles - 1 ELSE handles
    /\ file' = Pending
    /\ pc' = "done"
    /\ UNCHANGED <<op, input, bundle, text, path, fs, ser>>

\* Bundle::from_file, second line: Self::from_json(file); the File moves into
\* from_json and is dropped (closed) when it returns.
FromFileParse ==
    /\ op = "from_file" /\ pc = "opened"
    /\ res' = from_json(FileReader(file))
    /\ parses' = parses + 1
    /\ handles' = handles - 1
    /\ file' = Pending
    /\ pc' = "done"
    /\ UNCHANGED <<op, input, bundle, text, path, fs, ser>>

\* serde_json::to_string(&claim): of the Claim built directly, or of the one
\* just parsed.
ClaimToString ==
    /\ \/ op = "claim_to_string" /\ pc = "call"
       \/ op = "claim_from_str" /\ pc = "parsed" /\ res.ok
    /\ ser' = Written(Ser(Claim, IF op = "claim_to_string" THEN bundle ELSE res.val))
    /\ text' = IF op = "claim_to_string" /\ ser'.ok THEN ser'.val ELSE text
    /\ pc' = IF op = "claim_to_string" THEN "serialized" ELSE "done"
    /\ UNCHANGED <<op, input, bundle, path, fs, res, file, handles, parses>>

\* serde_json::from_str::<Claim>(text): of a document, or of the text just
\* written.
ClaimFromStr ==
    /\ \/ op = "claim_from_str" /\ pc = "call"
       \/ op = "claim_to_string" /\ pc = "serialized" /\ ser.ok
    /\ res' = LET r == ParseJson(text) IN IF r.ok THEN De(Claim, r.val) ELSE r
    /\ parses' = parses + 1
    /\ pc' = IF op = "claim_from_str" THEN "parsed" ELSE "done"
    /\ UNCHANGED <<op, input, bundle, text, path, fs, ser, file, handles>>

Next ==
    \/ Serialize
    \/ ParseBack
    \/ FromStrCall
    \/ Reserialize
    \/ FromJsonCall
    \/ FromFileOpen
    \/ FromFileParse
    \/ ClaimToString
    \/ ClaimFromStr

Spec == Init /\ [][Next]_vars

(***************************************************************************)
(* What the properties speak of.                                           *)
(***************************************************************************)
\* The grammar of a JSON text, recognised token by token by an automaton with
\* a stack of the open containers; st says what may come next.
Cfg(stack, st) == [ok |-> TRUE, stack |-> stack, st |-> st]
Stuck == [ok |-> FALSE, stack |-> <<>>, st |-> "stuck"]
Close(stack) == Cfg(Tail(stack), IF Tail(stack) = <<>> THEN "end" ELSE "more")
IsScalarTok(tok) ==
    \/ tok.k \in {"num", "str", "big"}
    \/ tok.k = "lit" /\ tok.w \in {"null", "true", "false"}
Step(c, tok) ==
    CASE c.st \in {"value", "first"} ->
           IF IsScalarTok(tok) THEN Cfg(c.stack, IF c.stack = <<>> THEN "end" ELSE "more")
           ELSE IF IsP(tok, "[") THEN Cfg(<<"arr">> \o c.stack, "first")
           ELSE IF IsP(tok, "{") THEN Cfg(<<"obj">> \o c.stack, "firstkey")
           ELSE IF IsP(tok, "]") /\ c.st = "first" THEN Close(c.stack)
           ELSE Stuck
      [] c.st \in {"key", "firstkey"} ->
           IF tok.k = "str" THEN Cfg(c.stack, "colon")
           ELSE IF IsP(tok, "}") /\ c.st = "firstkey" THEN Close(c.stack)
           ELSE Stuck
      [] c.st = "colon" ->
           IF IsP(tok, ":") THEN Cfg(c.stack, "value") ELSE Stuck
      [] c.st = "more" ->
           IF IsP(tok, ",")
           THEN Cfg(c.stack, IF Head(c.stack) = "arr" THEN "value" ELSE "key")
           ELSE IF \/ IsP(tok, "]") /\ Head(c.stack) = "arr"
                   \/ IsP(tok, "}") /\ Head(c.stack) = "obj"
                THEN Close(c.stack)
           ELSE Stuck
      [] OTHER -> Stuck
\* The automaton's configuration after the tokens lo..hi, started in c.
RECURSIVE Run(_, _, _, _)
Run(toks, lo, hi, c) ==
    IF lo > hi \/ ~c.ok THEN c
    ELSE IF lo = hi THEN Step(c, toks[lo])
    ELSE LET half == Run(toks, lo, (lo + hi) \div 2, c) IN
         IF half.ok THEN Run(toks, (lo + hi) \div 2 + 1, hi, half) ELSE half
WellFormed(toks) == Run(toks, 1, Len(toks), Cfg(<<>>, "value")).st = "end"

\* Semantic equality of JSON documents: the members of an object in any order.
RECURSIVE JsonEq(_, _)
JsonEq(x, y) ==
    IF x.t # y.t THEN FALSE
    ELSE IF x.t = "arr"
         THEN /\ Len(x.a) = Len(y.a)
              /\ \A i \in DOMAIN x.a : JsonEq(x.a[i], y.a[i])
    ELSE IF x.t = "obj"
         THEN /\ {x.o[i][1] : i \in DOMAIN x.o} = {y.o[i][1] : i \in DOMAIN y.o}
              /\ Len(x.o) = Len(y.o)
              /\ \A i \in DOMAIN x.o : \E h \in DOMAIN y.o :
                    x.o[i][1] = y.o[h][1] /\ JsonEq(x.o[i][2], y.o[h][2])
    ELSE x = y

\* The value of member k of the JSON object j.
Member(j, k) == j.o[CHOOSE i \in DOMAIN j.o : j.o[i][1] = k][2]

\* The deviation of the document parsed, and what it is about.
Parsed == op = "from_str" /\ pc # "call"
Returned == op \in {"from_str", "from_json"} /\ pc # "call"
OnMember(kinds, members) ==
    /\ input.dev.kind \in kinds
    /\ <<input.dev.e, input.dev.k>> \in members

\* The error is of the format-error kind: a serde_json::Error, which from_json
\* hands out as BundleParseError::SerdeJSONError.
IsFormatError(e) ==
    IF op = "from_str" THEN e.kind = "serde_json"
    ELSE e.kind = "BundleParseError" /\ e.variant = "SerdeJSONError"
         /\ e.e.kind = "serde_json"
JsonErrorOf(e) == IF op = "from_str" THEN e ELSE e.e

\* The JSON type of each required member.
RightType(e, k) ==
    CASE k = "invocationImages" -> "arr"
      [] k = "destination"      -> "obj"
      [] OTHER                  -> "str"

\* The flag a deviation is about, in the parsed Bundle b.
FlagValue(b, e, k) ==
    CASE e = "Action"     -> b.actions.x["a"][k]
      [] e = "Parameter"  -> b.parameters.x["b"].required
      [] e = "Credential" -> b.credentials.x["k1"].required
FlagIs(e, v, b) == IF e = "Action" THEN v = b ELSE v = Some(b)

\* The extension space e of the Bundle b.
Space(b, e) == IF e = "custom" THEN b.custom ELSE b.definitions

\* The wire keys of all the entities, in alphabetical (byte) order.
Alphabetical ==
    <<"actions", "applyTo", "arch", "contentDigest", "credentials", "custom",
      "definition", "definitions", "description", "destination", "email", "env",
      "image", "imageType", "images", "invocationImages", "keywords", "labels",
      "license", "maintainers", "mediaType", "modifies", "name", "os", "outputs",
      "parameters", "path", "platform", "required", "schemaVersion", "size",
      "stateless", "url", "version">>
Rank(k) == CHOOSE i \in DOMAIN Alphabetical : Alphabetical[i] = k
\* The members ms of an object come in strictly ascending alphabetical order.
InOrder(ms) == \A i \in DOMAIN ms : i > 1 => Rank(ms[i - 1][1]) < Rank(ms[i][1])

\* In the JSON tree j written for a value of type t, the object of every entity
\* has its keys in alphabetical order.
RECURSIVE Canonical(_, _)
Canonical(t, j) ==
    CASE j.t = "null"      -> TRUE
      [] t.ty = "Option"   -> Canonical(t.of, j)
      [] t.ty = "Vec"      -> \A i \in DOMAIN j.a : Canonical(t.of, j.a[i])
      [] t.ty = "BTreeMap" -> \A i \in DOMAIN j.o : Canonical(t.of, j.o[i][2])
      [] t.ty = "struct"   ->
           /\ InOrder(j.o)
           /\ \A i \in DOMAIN j.o : Canonical(FieldOf(t, j.o[i][1]).type, j.o[i][2])
      [] OTHER             -> TRUE

\* The image type a deviation is about, in the parsed Bundle b.
ImageTypeOf(b, e) ==
    IF e = "Image" THEN b.images.x["b"].image_type ELSE b.invocation_images[1].image_type

\* The Images and InvocationImages of the Bundle b.
ImagesOf(b) ==
    (IF b.images.some THEN Range(b.images.x) ELSE {}) \cup Range(b.invocation_images)

\* The JSON tree of the text that serde_json::to_string returned.
Emitted == ParseJson(ser.val).val

\* The mappings of a Bundle, and whether the members ms of a JSON object come
\* in strictly ascending order of their keys.
Mappings ==
    {"actions", "credentials", "custom", "definitions", "images", "outputs", "parameters"}
Ascending(ms) ==
    \A i \in DOMAIN ms : i > 1 =>
        (CHOOSE n \in DOMAIN KeyOrder : KeyOrder[n] = ms[i - 1][1])
            < (CHOOSE n \in DOMAIN KeyOrder : KeyOrder[n] = ms[i][1])

\* The status of each wire string.
StatusOf(w) ==
    CASE w = "success" -> "Success"
      [] w = "failure" -> "Failure"
      [] w = "pending" -> "Pending"
\* What the Claim document parsed has as result.status, if it has one.
WireStatus ==
    IF input.dev.kind = "replace" THEN input.dev.j
    ELSE IF input.status = "Success" THEN JStr("success")
    ELSE IF input.status = "Failure" THEN JStr("failure")
    ELSE JStr("pending")

\* The sequence a deviation is about: in the parsed Bundle b, and in the JSON
\* tree j written for it.
SeqOf(b, e, k) ==
    CASE e = "Parameter"         -> b.parameters.x["b"].apply_to.x
      [] e = "Output"            -> b.outputs.x["a"].apply_to.x
      [] k = "invocationImages"  -> b.invocation_images
      [] k = "keywords"          -> b.keywords.x
      [] k = "maintainers"       -> b.maintainers.x
ArrayOf(j, e, k) ==
    CASE e = "Parameter" -> Member(Member(Member(j, "parameters"), "b"), k).a
      [] e = "Output"    -> Member(Member(Member(j, "outputs"), "a"), k).a
      [] OTHER           -> Member(j, k).a
\* Element x of a parsed sequence is the element j of the document's array: the
\* same string, or the entity of the same name or image.
SameElement(k, x, j) ==
    CASE k = "maintainers"      -> x.name = Member(j, "name").s
      [] k = "invocationImages" -> x.image = Member(j, "image").s
      [] OTHER                  -> x = j.s
\* Elements x and y of two JSON arrays are the same.
SameJson(k, x, y) ==
    CASE k = "maintainers"      -> Member(x, "name") = Member(y, "name")
      [] k = "invocationImages" -> Member(x, "image") = Member(y, "image")
      [] OTHER                  -> x = y

(***************************************************************************)
(* Properties.                                                             *)
(***************************************************************************)
\* C1: every Bundle built directly serializes, and parsing the text with
\* Bundle::from_str succeeds with a Bundle equal to it in every field.
C1_RoundTrip ==
    /\ (op = "to_string" /\ pc # "call") => ser.ok
    /\ (op = "to_string" /\ pc = "done") => res = Ok(bundle)

\* C2: a document in which a required member (name, version, schemaVersion,
\* invocationImages, Image.image, InvocationImage.image, Maintainer.name,
\* Output.definition, Parameter.destination) is missing or has the wrong JSON
\* type, or that is not an object with these keys at all, does not parse: the
\* result is an error.
C2_AllOrNothing ==
    (/\ Parsed
     /\ \/ /\ OnMember({"missing", "replace"}, RequiredMembers)
           /\ \/ input.dev.kind = "missing"
              \/ input.dev.j.t # RightType(input.dev.e, input.dev.k)
        \/ input.dev.kind = "positional")
    => ~res.ok

C4_MalformedRejected ==
    (Returned /\ ~WellFormed(text)) => (~res.ok /\ IsFormatError(res.err))

\* C5: Bundle::from_file on a path at which there is nothing returns
\* Err(BundleParseError::IoError) and never invokes the JSON parser.
C5_MissingFile ==
    (op = "from_file" /\ fs[path].kind = "missing")
    => /\ parses = 0
       /\ pc \in {"call", "done"}
       /\ pc = "done" => (~res.ok /\ res.err.kind = "BundleParseError"
                          /\ res.err.variant = "IoError")

\* C6: a document that is valid but for a version that is not
\* semantic-version-shaped fails with a format error raised for the version
\* member; with a semantic-version-shaped version it parses to the Bundle whose
\* version is the corresponding (major, minor, patch, pre, build).
C6_VersionChecked ==
    (/\ Returned
     /\ OnMember({"replace"}, {<<"Bundle", "version">>})
     /\ input.dev.n \in DOMAIN VersionTexts
     /\ input.dev.j = JStr(VersionTexts[input.dev.n]))
    => IF input.dev.n \in DOMAIN DirectVersions
       THEN res.ok /\ res.val.version = DirectVersions[input.dev.n]
       ELSE /\ ~res.ok
            /\ IsFormatError(res.err)
            /\ JsonErrorOf(res.err).category = "Data"
            /\ JsonErrorOf(res.err).pos = <<"version">>

\* C7: a document in which any combination of optional members is left out
\* parses to the Bundle that has None for exactly the members left out and the
\* supplied value for every other.
C7_IndependentOptionality ==
    (Parsed /\ input.dev.kind = "none") => res = Ok(MkBundle(input.sh))

C9_UnknownIgnored ==
    (Parsed /\ input.dev.kind = "extra" /\ input.dev.e \in Entities)
    => /\ res.ok
       /\ res = FromStr(TextOf(input.sh, NoDev))

\* C10: serializing a Bundle built directly never returns an error, whatever
\* path its Credential.path, Destination.path and Output.path hold.
C10_SerializeTotal ==
    (op = "to_string" /\ pc # "call") => ser.ok

\* C11: in the text that serializing a Bundle returns, the object of every
\* entity (Bundle, Image, InvocationImage, Maintainer, Platform, Credential,
\* Parameter, Action, Destination, Output) has its keys in alphabetical order
\* of their wire names.
C11_CanonicalOrder ==
    (op \in {"to_string", "from_str"} /\ ser # Pending /\ ser.ok)
    => Canonical(Bundle, Emitted)

\* C12 (as stated): a document in which an Image or an InvocationImage has no
\* imageType parses to an entity whose image type is "oci", as does the document
\* that says "imageType": "oci".
C12_ImageTypeDefault ==
    (Parsed /\ OnMember({"missing", "replace"}, ImageTypeMembers))
    => /\ res.ok
       /\ ImageTypeOf(res.val, input.dev.e) = Some("oci")

\* C12 (amended): a document in which an Image or an InvocationImage has no
\* imageType parses to an entity whose image_type is None, and the document that
\* says "imageType": "oci" parses to one whose image_type is Some("oci").
C12_ImageTypeAbsent ==
    (Parsed /\ OnMember({"missing", "replace"}, ImageTypeMembers))
    => /\ res.ok
       /\ ImageTypeOf(res.val, input.dev.e) =
            IF input.dev.kind = "missing" THEN None ELSE Some("oci")

\* C13: when Bundle::from_file or Bundle::from_json fails, the error is
\* BundleParseError::IoError if the source could not be read (the open failed,
\* or the reader returned an I/O error, as a directory's does), and it is
\* BundleParseError::SerdeJSONError only if the bytes were read.
C13_ErrorKinds ==
    (op \in {"from_file", "from_json"} /\ pc = "done" /\ ~res.ok)
    => res.err.variant =
         IF \/ op = "from_file" /\ fs[path].kind # "file"
            \/ op = "from_json" /\ input.dev.kind = "unreadable"
         THEN "IoError" ELSE "SerdeJSONError"

\* C14: a call of Bundle::from_file holds a file handle only between its open
\* and its parse: one handle at most, none when the open failed, and none once
\* the call has returned, whether it failed to open, to read or to parse, or
\* succeeded.
C14_HandleRelease ==
    /\ handles \in {0, 1}
    /\ handles = 1 => (op = "from_file" /\ pc = "opened" /\ fs[path].kind \in {"file", "dir"})
    /\ pc = "done" => (handles = 0 /\ file = Pending)

\* C15: every Image and InvocationImage of a parsed Bundle has a size that is
\* absent or at least 0, and a document whose size is negative or is 2^63 does
\* not parse.
C15_SizeNonNegative ==
    /\ (Parsed /\ res.ok)
       => \A img \in ImagesOf(res.val) : img.size.some => img.size.x >= 0
    /\ (Parsed /\ input.dev.kind = "replace" /\ input.dev.k = "size"
          /\ input.dev.j \in {SizeSamples[1], SizeSamples[4]})
       => ~res.ok

\* C16: for keywords, maintainers, invocationImages and applyTo, the parsed
\* sequence has the length of the document's array and at each index the
\* element of that index, and serializing the Bundle writes an array with the
\* same elements at the same indices.
C16_OrderPreserved ==
    (/\ Parsed
     /\ OnMember({"replace"}, SeqMembers)
     /\ input.dev.n \in DOMAIN SeqSamples(input.dev.k)
     /\ input.dev.j = SeqSamples(input.dev.k)[input.dev.n])
    => /\ res.ok
       /\ Len(SeqOf(res.val, input.dev.e, input.dev.k)) = Len(input.dev.j.a)
       /\ \A i \in DOMAIN input.dev.j.a :
             SameElement(input.dev.k, SeqOf(res.val, input.dev.e, input.dev.k)[i],
                         input.dev.j.a[i])
       /\ pc = "done" =>
             /\ ser.ok
             /\ Len(ArrayOf(Emitted, input.dev.e, input.dev.k)) = Len(input.dev.j.a)
             /\ \A i \in DOMAIN input.dev.j.a :
                   SameJson(input.dev.k, ArrayOf(Emitted, input.dev.e, input.dev.k)[i],
                            input.dev.j.a[i])

\* C17: a Claim document parses if and only if it has a result.status that is
\* one of the strings "success", "failure" and "pending"; the Claim then holds
\* Status::Success, Status::Failure or Status::Pending respectively, and
\* serializing it writes one of those three strings as the status.
C17_ClosedStatus ==
    (op = "claim_from_str" /\ pc # "call")
    => /\ res.ok <=> /\ input.dev.kind # "missing"
                     /\ WireStatus.t = "str"
                     /\ WireStatus.s \in {"success", "failure", "pending"}
       /\ res.ok => res.val.result.status = StatusOf(WireStatus.s)
       /\ pc = "done" =>
             /\ ser.ok
             /\ Member(Member(Emitted, "result"), "status")
                   \in {JStr("success"), JStr("failure"), JStr("pending")}

\* C18: a document that repeats a key inside images, parameters, credentials,
\* actions, outputs, custom or definitions parses, and the mapping holds one
\* entry for each key, the repeated key's being the value of its last
\* occurrence in the document.
C18_LastKeyWins ==
    (Parsed /\ input.dev.kind = "repeat")
    => /\ res.ok
       /\ res.val[input.dev.e].some
       /\ res.val[input.dev.e].x =
            IF input.dev.n = 1
            THEN [MkBundle(input.sh)[input.dev.e].x EXCEPT
                    ![input.dev.k] = De(FieldOf(Bundle, input.dev.e).type.of.of,
                                        input.dev.j).val]
            ELSE MkBundle(input.sh)[input.dev.e].x

\* C19: a document and the document with the members of every entity and of
\* every mapping in the reverse order parse to Bundles that serialize to the
\* same text, in which the entries of every mapping come in ascending order of
\* their keys.
C19_OrderInsensitive ==
    (Parsed /\ input.dev.kind = "reordered")
    => /\ res.ok
       /\ pc = "done" =>
             /\ ser.ok
             /\ ser = to_string(FromStr(TextOf(input.sh, NoDev)).val)
             /\ \A e \in Mappings : Ascending(Member(Emitted, e).o)
             /\ Ascending(Member(Member(Member(Emitted, "images"), "b"), "labels").o)

\* C20: parsing the text that serializing a Claim returned gives a Claim whose
\* custom is None exactly when the Claim's custom is None and otherwise is
\* Some of the same value, Some(null) included.
C20_CustomRoundTrip ==
    (op = "claim_to_string" /\ pc = "done")
    => /\ res.ok
       /\ res.val.custom.some <=> bundle.custom.some
       /\ res.val.custom = bundle.custom

C4_Witness ==
    /\ op = "from_json" /\ pc = "done"
    /\ text = <<P("{"), Bad("hello")>>
    /\ ~res.ok

C5_Witness ==
    /\ op = "from_file" /\ pc = "done"
    /\ fs[path].kind = "missing"
    /\ ~res.ok

C6_Witness ==
    /\ Parsed /\ ~res.ok
    /\ input.dev.kind = "replace"
    /\ input.dev.j = JStr("abc")

C7_Witness ==
    /\ Parsed /\ res.ok
    /\ input.dev.kind = "none"
    /\ input.sh.present = OptFields /\ input.sh.empty = {}
    /\ input.sh.nested = {"env"}
    /\ res.val.parameters.x["b"].destination = [env |-> Some("FIRST"), path |-> None]

C9_Witness ==
    /\ Parsed /\ res.ok
    /\ input.dev.kind = "extra" /\ input.dev.e = "Bundle" /\ input.dev.k = "labels"

C12_Witness ==
    /\ Parsed /\ res.ok
    /\ OnMember({"missing"}, {<<"Image", "imageType">>})
    /\ res.val.images.x["b"].image_type = None

C14_Witness ==
    /\ op = "from_file" /\ pc = "done"
    /\ fs[path].kind = "file" /\ input.dev.kind = "garbage"
    /\ parses = 1 /\ ~res.ok
    /\ handles = 0

C16_Witness ==
    /\ op = "from_str" /\ pc = "done" /\ ser.ok
    /\ OnMember({"replace"}, {<<"Bundle", "keywords">>})
    /\ res.val.keywords.x = <<"b", "a", "b", "c", "a">>

C18_Witness ==
    /\ Parsed /\ res.ok
    /\ input.dev.kind = "repeat" /\ input.dev.e = "images" /\ input.dev.n = 1
    /\ DOMAIN res.val.images.x = {"b"}
    /\ res.val.images.x["b"].image = "other"

C19_Witness ==
    /\ op = "from_str" /\ pc = "done" /\ ser.ok
    /\ input.dev.kind = "reordered"
    /\ text # TextOf(input.sh, NoDev)
    /\ Len(Member(Emitted, "credentials").o) = 2
    /\ Member(Emitted, "credentials").o[1][1] = "k1"

====
